---- MODULE Spec2Model ----
(***************************************************************************)
(* Model of the connector-inventory serverless functions:                  *)
(*   - the Catalog Reader  (netlify/functions/get-connectors.js, in the    *)
(*     four deployed variants found in the repository), and                *)
(*   - the Image Resolver  (netlify/functions/image-proxy.js, in its       *)
(*     three variants).                                                    *)
(* JavaScript strings are TLA+ strings, read character by character with   *)
(* Len, SubSeq and \o.  A JavaScript number is a record [nan, n]: nan is   *)
(* TRUE for NaN and n is the integer value otherwise.                      *)
(***************************************************************************)
EXTENDS Integers, Sequences, FiniteSets, TLC

(***************************************************************************)
(* Characters and the string primitives the handlers use.                  *)
(***************************************************************************)

\* The i-th character of s, as a one-character string ("" outside s).
Char(s, i) == IF i >= 1 /\ i <= Len(s) THEN SubSeq(s, i, i) ELSE ""

\* Printable ASCII in code-unit order: 32 (space) to 95 (_), and 97 (a) to
\* 126 (~).
AsciiLow == " !\"#$%&'()*+,-./0123456789:;<=>?@ABCDEFGHIJKLMNOPQRSTUVWXYZ[\\]^_"

AsciiHigh == "abcdefghijklmnopqrstuvwxyz{|}~"

\* The UTF-16 code unit of a one-character string.
CharCode(c) ==
  IF c = "\t" THEN 9
  ELSE IF c = "\n" THEN 10
  ELSE IF c = "\f" THEN 12
  ELSE IF c = "\r" THEN 13
  ELSE IF \E i \in 1..Len(AsciiLow) : Char(AsciiLow, i) = c
       THEN 31 + (CHOOSE i \in 1..Len(AsciiLow) : Char(AsciiLow, i) = c)
       ELSE 96 + (CHOOSE i \in 1..Len(AsciiHigh) : Char(AsciiHigh, i) = c)

\* \d of a JavaScript regular expression.
IsDigit(c) == c \in {"0", "1", "2", "3", "4", "5", "6", "7", "8", "9"}

\* \s of a JavaScript regular expression, and the white space trim() removes.
IsSpace(c) == c \in {" ", "\t", "\n", "\f", "\r"}

\* [a-zA-Z] by code unit
IsLetterCode(k) == (k >= 65 /\ k <= 90) \/ (k >= 97 /\ k <= 122)

\* [a-zA-Z]
IsLetter(c) == IsLetterCode(CharCode(c))

\* [a-zA-Z0-9_-]
IsIdChar(c) == IsDigit(c) \/ c = "_" \/ c = "-" \/ IsLetter(c)

\* ' or "
IsQuote(c) == c = "'" \/ c = "\""

\* The character classes of the regular expressions, by name.
InClass(cls, c) ==
  CASE cls = "space" -> IsSpace(c)
    [] cls = "digit" -> IsDigit(c)
    [] cls = "quote" -> IsQuote(c)
    [] cls = "id" -> IsIdChar(c)
    [] cls = "notAmp" -> c # "&"
    [] cls = "notSlash" -> c # "/"
    [] cls = "notComma" -> c # ","

\* The least element of a non-empty set of integers.
Min(S) == CHOOSE a \in S : \A b \in S : a <= b

\* The greatest element of a non-empty set of integers.
Max(S) == CHOOSE a \in S : \A b \in S : b <= a

\* The positions of s whose character is not of the class.
Others(s, cls) == { i \in 1..Len(s) : ~InClass(cls, Char(s, i)) }

\* s from the first of the positions in keep on ("" when there is none).
FromFirst(s, keep) == IF keep = {} THEN "" ELSE SubSeq(s, Min(keep), Len(s))

\* s up to the last of the positions in keep ("" when there is none).
UpToLast(s, keep) == IF keep = {} THEN "" ELSE SubSeq(s, 1, Max(keep))

\* s without its longest prefix of characters of the class cls.
DropWhile(s, cls) == FromFirst(s, Others(s, cls))

\* s without its longest suffix of characters of the class cls.
DropWhileEnd(s, cls) == UpToLast(s, Others(s, cls))

\* String.prototype.trim
Trim(s) == DropWhileEnd(DropWhile(s, "space"), "space")

\* str.replace(/^['"]+|['"]+$/g, "")
StripQuotes(s) == DropWhileEnd(DropWhile(s, "quote"), "quote")

\* str.replace(/\s+/g, "")
RECURSIVE RemoveSpaces(_)
RemoveSpaces(s) ==
  IF s = "" THEN ""
  ELSE (IF IsSpace(Char(s, 1)) THEN "" ELSE Char(s, 1))
         \o RemoveSpaces(SubSeq(s, 2, Len(s)))

\* TRUE when sub occurs in s at position i (1-based).
OccursAt(s, sub, i) ==
  /\ i >= 1
  /\ i + Len(sub) - 1 <= Len(s)
  /\ SubSeq(s, i, i + Len(sub) - 1) = sub

\* String.prototype.includes
Includes(s, sub) == \E i \in 1..(Len(s) + 1) : OccursAt(s, sub, i)

\* The first position from i on where the run of characters of the class cls
\* that starts at i has ended (i itself when s[i] is not of the class).
SkipWhile(s, i, cls) ==
  Min({ j \in i..(Len(s) + 1) : j = Len(s) + 1 \/ ~InClass(cls, Char(s, j)) })

\* The length of the longest run of characters of the class cls that starts at
\* position i of s.
RunLen(s, i, cls) == SkipWhile(s, i, cls) - i

\* Boolean(s) for a string: the empty string is the only falsy one.
Truthy(s) == s # ""

(***************************************************************************)
(* JavaScript numbers.                                                     *)
(***************************************************************************)

NaN == [nan |-> TRUE, n |-> 0]

Num(k) == [nan |-> FALSE, n |-> k]

DigitValue(c) == CharCode(c) - 48

\* The value of a string of decimal digits.
RECURSIVE DigitsValue(_)
DigitsValue(s) ==
  IF s = "" THEN 0
  ELSE 10 * DigitsValue(SubSeq(s, 1, Len(s) - 1)) + DigitValue(Char(s, Len(s)))

AllDigits(s) == s # "" /\ \A i \in 1..Len(s) : IsDigit(Char(s, i))

\* TRUE when t starts with a sign.
Signed(t) == t # "" /\ Char(t, 1) \in {"+", "-"}

\* t without its sign.
Unsigned(t) == IF Signed(t) THEN SubSeq(t, 2, Len(t)) ELSE t

\* The number a sign and a run of digits denote.
SignedValue(t, digits) ==
  IF Signed(t) /\ Char(t, 1) = "-" THEN Num(0 - DigitsValue(digits))
  ELSE Num(DigitsValue(digits))

\* StringToNumber of a string without surrounding white space.
NumberOfTrimmed(t) ==
  IF t = "" THEN Num(0)
  ELSE IF ~AllDigits(Unsigned(t)) THEN NaN
  ELSE SignedValue(t, Unsigned(t))

\* Number(s) for a string s (StringToNumber): white space is trimmed, the
\* empty string is 0, an optionally signed run of decimal digits is its value,
\* anything else is NaN.  The decimal point, exponents, the 0x/0o/0b
\* prefixes and Infinity are not modelled: no input alphabet below has them.
NumberOf(s) == NumberOfTrimmed(Trim(s))

\* parseFloat of a string without leading white space: the longest prefix
\* that is an optionally signed run of digits, NaN when there is none.
ParseFloatTrimmed(t) ==
  IF ~IsDigit(Char(Unsigned(t), 1)) THEN NaN
  ELSE SignedValue(t, SubSeq(Unsigned(t), 1, RunLen(Unsigned(t), 1, "digit")))

\* parseFloat(s)
ParseFloat(s) == ParseFloatTrimmed(DropWhile(s, "space"))

\* The decimal digits of a natural number (template-literal interpolation).
RECURSIVE NumberToString(_)
NumberToString(k) ==
  IF k < 10 THEN Char("0123456789", k + 1)
  ELSE NumberToString(k \div 10) \o Char("0123456789", (k % 10) + 1)

\* x || 0 for a number x: NaN and 0 are falsy.
OrZero(x) == IF x.nan \/ x.n = 0 THEN Num(0) ELSE x

(***************************************************************************)
(* formatTermRange and the two image-reference resolvers.                  *)
(***************************************************************************)

\* The end of the capture group of /#\s*(\d+\s*-\s*\d+)/ when the group
\* starts at position from of s, 0 when the expression does not match there.
\* \s and \d are disjoint classes, so the greedy quantifiers never give
\* characters back: each step skips the longest run.
RangeEnd(from, to) == IF to = from THEN 0 ELSE to - 1

SecondNumber(s, from) == RangeEnd(from, SkipWhile(s, from, "digit"))

Dash(s, at) ==
  IF at > Len(s) \/ Char(s, at) # "-" THEN 0
  ELSE SecondNumber(s, SkipWhile(s, at + 1, "space"))

AfterFirstNumber(s, from, to) ==
  IF to = from THEN 0 ELSE Dash(s, SkipWhile(s, to, "space"))

CaptureEnd(s, from) == AfterFirstNumber(s, from, SkipWhile(s, from, "digit"))

\* Where the capture group starts for a match that starts at the # at.
CaptureStart(s, at) == SkipWhile(s, at + 1, "space")

\* The positions of s where /#\s*(\d+\s*-\s*\d+)/ matches.
TermMatches(s) ==
  { at \in 1..Len(s) : Char(s, at) = "#" /\ CaptureEnd(s, CaptureStart(s, at)) > 0 }

\* `T:${match[1].replace(/\s+/g, "")}` for the capture that starts at from
TermLabel(s, from) == "T:" \o RemoveSpaces(SubSeq(s, from, CaptureEnd(s, from)))

\* match ? `T:...` : String(raw), the match being the leftmost one
FormatMatch(raw, matches) ==
  IF matches = {} THEN raw ELSE TermLabel(raw, CaptureStart(raw, Min(matches)))

\* Convert "Terminals #1-8" to "T:1-8".
formatTermRange(raw) == IF ~Truthy(raw) THEN "" ELSE FormatMatch(raw, TermMatches(raw))

\* The positions of s where one of the strings in leads is followed by at
\* least one character of the class cls.
LeadHits(s, leads, cls) ==
  { i \in 1..Len(s) :
      \E l \in leads : OccursAt(s, l, i) /\ RunLen(s, i + Len(l), cls) >= 1 }

\* The longest run of characters of the class cls from position from of s on.
RunAt(s, from, cls) == SubSeq(s, from, SkipWhile(s, from, cls) - 1)

\* The capture after the lead that occurs at position i.
CaptureAfter(s, leads, i, cls) ==
  RunAt(s, i + Len(CHOOSE l \in leads : OccursAt(s, l, i)), cls)

\* The capture at the leftmost of the positions in hits, "" for no match.
LeftmostCapture(s, leads, hits, cls) ==
  IF hits = {} THEN "" ELSE CaptureAfter(s, leads, Min(hits), cls)

\* The first capture of a regular expression of the form  LEAD ( CLASS+ ) :
\* the leftmost position where one of the strings in leads is followed by at
\* least one character of the class cls; the capture is the longest such run.
\* "" stands for null (no match); a capture is never empty.
FirstCapture(s, leads, cls) == LeftmostCapture(s, leads, LeadHits(s, leads, cls), cls)

\* The shortest string /^[a-zA-Z0-9_-]{20,}$/ accepts.
MinBareIdLen == 20

\* String(raw).trim() followed by the removal of surrounding quotes.
CleanRef(raw) == StripQuotes(Trim(raw))

\* Case 1 of buildDriveThumbnailUrl: /[?&]id=([a-zA-Z0-9_-]+)/
ThumbIdParam(str) == FirstCapture(str, {"?id=", "&id="}, "id")

\* Case 2 of buildDriveThumbnailUrl: /\/d\/([a-zA-Z0-9_-]+)/
ThumbFileMatch(str) == FirstCapture(str, {"/d/"}, "id")

\* Case 3 of buildDriveThumbnailUrl: /^[a-zA-Z0-9_-]{20,}$/
ThumbBareMatch(str) ==
  IF Len(str) >= MinBareIdLen /\ \A i \in 1..Len(str) : IsIdChar(Char(str, i))
  THEN str ELSE ""

\* The first of three identifiers that is not null: a later case is tried
\* only if (!id).
FirstId(a, b, c) == IF a # "" THEN a ELSE IF b # "" THEN b ELSE c

\* The identifier buildDriveThumbnailUrl settles on ("" for null).
ThumbId(str) == FirstId(ThumbIdParam(str), ThumbFileMatch(str), ThumbBareMatch(str))

ThumbUrl(id) == "https://drive.google.com/thumbnail?id=" \o id \o "&sz=w400"

\* if (!id) return str; return the thumbnail URL
ThumbResult(str, id) == IF id = "" THEN str ELSE ThumbUrl(id)

ThumbResolve(str) == ThumbResult(str, ThumbId(str))

buildDriveThumbnailUrl(raw) == IF ~Truthy(raw) THEN "" ELSE ThumbResolve(CleanRef(raw))

\* The identifier normalizeDriveUrl settles on ("" for null):
\* /[?&]id=([^&]+)/ first, /\/file\/d\/([^/]+)/ second.
DownloadId(str) ==
  FirstId(FirstCapture(str, {"?id=", "&id="}, "notAmp"),
          FirstCapture(str, {"/file/d/"}, "notSlash"), "")

DownloadUrl(id) ==
  "https://drive.usercontent.google.com/download?id=" \o id \o "&export=view"

\* if (!str.includes("drive.google.com")) return str; if (!id) return str;
DownloadResult(str, id) ==
  IF ~Includes(str, "drive.google.com") THEN str
  ELSE IF id = "" THEN str
  ELSE DownloadUrl(id)

DownloadResolve(str) == DownloadResult(str, DownloadId(str))

normalizeDriveUrl(raw) == IF ~Truthy(raw) THEN "" ELSE DownloadResolve(CleanRef(raw))

(***************************************************************************)
(* Array helpers, comparators and Array.prototype.sort.                    *)
(***************************************************************************)

\* arr.filter(Boolean) on an array of strings
RECURSIVE FilterTruthy(_)
FilterTruthy(arr) ==
  IF arr = <<>> THEN <<>>
  ELSE IF Truthy(Head(arr)) THEN <<Head(arr)>> \o FilterTruthy(Tail(arr))
  ELSE FilterTruthy(Tail(arr))

\* arr.filter((v, i, arr) => arr.indexOf(v) === i): first occurrences only.
Dedupe(arr) ==
  LET keep == { i \in 1..Len(arr) : \A j \in 1..(i - 1) : arr[j] # arr[i] }
      F[i \in 0..Len(arr)] ==
        IF i = 0 THEN <<>>
        ELSE IF i \in keep THEN Append(F[i - 1], arr[i]) ELSE F[i - 1]
  IN F[Len(arr)]

\* arr.join(sep)
RECURSIVE Join(_, _)
Join(arr, sep) ==
  IF arr = <<>> THEN ""
  ELSE IF Len(arr) = 1 THEN arr[1]
  ELSE arr[1] \o sep \o Join(Tail(arr), sep)

\* str.split(","): the pieces between commas, empty pieces included.
RECURSIVE SplitComma(_)
SplitComma(s) ==
  IF ~Includes(s, ",") THEN <<s>>
  ELSE <<RunAt(s, 1, "notComma")>>
         \o SplitComma(SubSeq(s, SkipWhile(s, 1, "notComma") + 1, Len(s)))

\* arr.map((s) => s.trim())
TrimAll(arr) == [i \in 1..Len(arr) |-> Trim(arr[i])]

Sign(k) == IF k < 0 THEN 0 - 1 ELSE IF k > 0 THEN 1 ELSE 0

\* The primary collation weight of a character: digits before letters,
\* letters without regard to case.  Only digits and letters are weighted;
\* the option alphabets have nothing else.
WeightOfCode(k) == IF k <= 57 THEN k - 48 ELSE IF k >= 97 THEN 10 + k - 97 ELSE 10 + k - 65

CollationWeight(c) == WeightOfCode(CharCode(c))

\* The tertiary weight: lower case before upper case.
CaseWeight(c) == 0 - CharCode(c)

\* The key of a character in a comparison of strings, by name.
KeyOf(key, c) ==
  CASE key = "code" -> CharCode(c)
    [] key = "collation" -> CollationWeight(c)
    [] key = "case" -> CaseWeight(c)

\* The positions up to the shorter length where key differs between a and b.
Differences(a, b, key) ==
  { i \in 1..Len(a) : i <= Len(b) /\ KeyOf(key, Char(a, i)) # KeyOf(key, Char(b, i)) }

\* The order of two strings by key: the keys at the first difference
\* decide; without one, the shorter string (a prefix of the other) is first.
OrderAt(a, b, diff, key) ==
  IF diff = {} THEN Sign(Len(a) - Len(b))
  ELSE Sign(KeyOf(key, Char(a, Min(diff))) - KeyOf(key, Char(b, Min(diff))))

\* The order of two strings by UTF-16 code units, as the default sort()
\* compares them: -1, 0 or 1.
CodeUnitCompare(a, b) == OrderAt(a, b, Differences(a, b, "code"), "code")

\* The first comparison if it decides, the second otherwise.
Otherwise(first, second) == IF first # 0 THEN first ELSE second

\* String.prototype.localeCompare: primary weights first; when they tie, the
\* first difference in case decides, lower case first.  -1, 0 or 1.
LocaleCompare(a, b) ==
  Otherwise(OrderAt(a, b, Differences(a, b, "collation"), "collation"),
            OrderAt(a, b, Differences(a, b, "case"), "case"))

\* na - nb when neither is NaN, the other comparison otherwise.
DifferenceOr(na, nb, other) == IF ~na.nan /\ ~nb.nan THEN na.n - nb.n ELSE other

\* na - nb when neither is NaN and they differ, the other comparison otherwise.
StrictDifferenceOr(na, nb, other) ==
  IF ~na.nan /\ ~nb.nan /\ na.n # nb.n THEN na.n - nb.n ELSE other

\* (a, b) => { const na = Number(a), nb = Number(b);
\*             if (!isNaN(na) && !isNaN(nb)) return na - nb;
\*             return String(a).localeCompare(String(b)); }
NumberThenLocale(a, b) == DifferenceOr(NumberOf(a), NumberOf(b), LocaleCompare(a, b))

\* (a, b) => Number(a) - Number(b); a NaN result counts as 0 in the sort.
NumberDifference(a, b) == DifferenceOr(NumberOf(a), NumberOf(b), 0)

\* (a, b) => { const na = parseFloat(a), nb = parseFloat(b);
\*             if (!isNaN(na) && !isNaN(nb) && na !== nb) return na - nb;
\*             return String(a).localeCompare(String(b)); }
FloatThenLocale(a, b) ==
  StrictDifferenceOr(ParseFloat(a), ParseFloat(b), LocaleCompare(a, b))

\* The comparator a sort call passes, by name.
Compare(cmp, a, b) ==
  CASE cmp = "numberThenLocale" -> NumberThenLocale(a, b)
    [] cmp = "numberDifference" -> NumberDifference(a, b)
    [] cmp = "floatThenLocale"  -> FloatThenLocale(a, b)
    [] cmp = "locale"           -> LocaleCompare(a, b)
    [] cmp = "default"          -> CodeUnitCompare(a, b)

\* Array.prototype.sort as the Node runtime runs it on an array shorter than
\* 64 elements: the leading run is found (and reversed when strictly
\* descending), then every later element is placed by binary insertion.

\* TRUE when the comparison of an element with its predecessor ends the run.
EndsRun(descending, order) == (descending /\ order >= 0) \/ (~descending /\ order < 0)

\* The last position of the leading run, idx being the next one to look at.
RECURSIVE RunEnd(_, _, _, _)
RunEnd(cmp, arr, descending, idx) ==
  IF idx > Len(arr) THEN idx - 1
  ELSE IF EndsRun(descending, Compare(cmp, arr[idx], arr[idx - 1])) THEN idx - 1
  ELSE RunEnd(cmp, arr, descending, idx + 1)

Reverse(arr) == [i \in 1..Len(arr) |-> arr[Len(arr) + 1 - i]]

\* The array with its leading run made ascending.
MakeRun(arr, descending, run) ==
  IF descending THEN Reverse(SubSeq(arr, 1, run)) \o SubSeq(arr, run + 1, Len(arr))
  ELSE arr

\* The binary search of the insertion sort: where pivot goes in arr[1..right-1].
RECURSIVE InsertionPoint(_, _, _, _, _)
InsertionPoint(cmp, arr, pivot, left, right) ==
  IF left >= right THEN left
  ELSE IF Compare(cmp, pivot, arr[left + ((right - left) \div 2)]) < 0
  THEN InsertionPoint(cmp, arr, pivot, left, left + ((right - left) \div 2))
  ELSE InsertionPoint(cmp, arr, pivot, left + ((right - left) \div 2) + 1, right)

\* arr with the element at position start moved to position at <= start.
MoveTo(arr, start, at) ==
  SubSeq(arr, 1, at - 1) \o <<arr[start]>> \o SubSeq(arr, at, start - 1)
    \o SubSeq(arr, start + 1, Len(arr))

RECURSIVE BinaryInsertionSort(_, _, _)
BinaryInsertionSort(cmp, arr, start) ==
  IF start > Len(arr) THEN arr
  ELSE BinaryInsertionSort(cmp,
         MoveTo(arr, start, InsertionPoint(cmp, arr, arr[start], 1, start)),
         start + 1)

SortRun(arr, cmp, descending, run) ==
  BinaryInsertionSort(cmp, MakeRun(arr, descending, run), run + 1)

SortFrom(arr, cmp, descending) == SortRun(arr, cmp, descending, RunEnd(cmp, arr, descending, 3))

Sort(arr, cmp) ==
  IF Len(arr) < 2 THEN arr
  ELSE SortFrom(arr, cmp, Compare(cmp, arr[2], arr[1]) < 0)

\* statsRows.map((r) => r[0]), with "" standing for undefined
FirstCells(statsRows) ==
  [i \in 1..Len(statsRows) |->
     IF Len(statsRows[i]) >= 1 THEN statsRows[i][1] ELSE ""]

\* statsRows.map((r) => r[0]).filter(Boolean).filter(first occurrence).sort(cmp)
OptionList(statsRows, cmp) == Sort(Dedupe(FilterTruthy(FirstCells(statsRows))), cmp)

(***************************************************************************)
(* The Catalog Reader: rows, column maps and items.                        *)
(***************************************************************************)

\* The variants of get-connectors.js in the repository:
\*   "thumb"    netlify/functions/get-connectors.js, first handler
\*              (pictures through buildDriveThumbnailUrl)
\*   "download" netlify/functions/get-connectors.js, second handler
\*              (pictures through normalizeDriveUrl)
\*   "joined"   unnamed/part_000 (description joined from two columns)
\*   "plain"    public/netlify/functions/get-connectors.js (single range)
Variants == {"thumb", "download", "joined", "plain"}

\* The variants that read the primary and the Stats ranges with batchGet.
BatchVariants == {"thumb", "download", "joined"}

\* Column index mapping (0-based) of the batchGet variants.
COL ==
  [ partNumber |-> 1, shop |-> 7, shopQty |-> 8, van |-> 9, vanQty |-> 10,
    gender |-> 11, pins |-> 12, category |-> 13, desc1 |-> 14, desc2 |-> 15,
    manufacturer |-> 16, ford |-> 17, gm |-> 18, hyundaiKia |-> 19,
    nissan |-> 20, toyota |-> 21, term1_tub |-> 22, term1_bin |-> 23,
    term1_code |-> 24, term2_code |-> 27, term2_bin |-> 28, term2_tub |-> 29,
    mating |-> 30, price |-> 37, terminalSizes |-> 41, picture |-> 42 ]

\* Column index mapping (0-based) of the single-range variant.
PlainCOL ==
  [ picture |-> 0, partNumber |-> 1, description |-> 2, shop |-> 3,
    shopQty |-> 4, van |-> 5, vanQty |-> 6, pins |-> 7, category |-> 8,
    gender |-> 9, manufacturer |-> 10, vehicle |-> 11, altNumber |-> 12,
    passNumber |-> 13, terminalSizes |-> 14 ]

\* const get = (i) => (row[i] !== undefined ? row[i] : "")
Get(row, i) == IF i + 1 <= Len(row) THEN row[i + 1] ELSE ""

\* A faulty Quantity, for testing what the quantity properties detect:
\* Number(get(i)) without the || 0 default.
QuantityUnguarded(row, i) == NumberOf(Get(row, i))

\* Number(get(i)) || 0
Quantity(row, i) == OrZero(NumberOf(Get(row, i)))

\* A faulty Oems, for testing what the vehicle properties detect: the names
\* pushed in the order Toyota, Nissan, HyundaiKia, GM, Ford.
OemsReversed(row) ==
  (IF Truthy(Get(row, COL.toyota)) THEN <<"Toyota">> ELSE <<>>)
    \o (IF Truthy(Get(row, COL.nissan)) THEN <<"Nissan">> ELSE <<>>)
    \o (IF Truthy(Get(row, COL.hyundaiKia)) THEN <<"HyundaiKia">> ELSE <<>>)
    \o (IF Truthy(Get(row, COL.gm)) THEN <<"GM">> ELSE <<>>)
    \o (IF Truthy(Get(row, COL.ford)) THEN <<"Ford">> ELSE <<>>)

\* The OEM names pushed for a row, in the order of the five if statements.
Oems(row) ==
  (IF Truthy(Get(row, COL.ford)) THEN <<"Ford">> ELSE <<>>)
    \o (IF Truthy(Get(row, COL.gm)) THEN <<"GM">> ELSE <<>>)
    \o (IF Truthy(Get(row, COL.hyundaiKia)) THEN <<"HyundaiKia">> ELSE <<>>)
    \o (IF Truthy(Get(row, COL.nissan)) THEN <<"Nissan">> ELSE <<>>)
    \o (IF Truthy(Get(row, COL.toyota)) THEN <<"Toyota">> ELSE <<>>)

\* hasData: partNumber || description || shop || van || pins || category
HasData(row) ==
  \/ Truthy(Get(row, COL.partNumber))
  \/ Truthy(Get(row, COL.desc1))
  \/ Truthy(Get(row, COL.shop))
  \/ Truthy(Get(row, COL.van))
  \/ Truthy(Get(row, COL.pins))
  \/ Truthy(Get(row, COL.category))

\* TRUE when the variant's row loop skips the row (if (!hasData) continue).
\* The rows.map variants emit an item for every row.
Skips(v, row) == v \in {"thumb", "download"} /\ ~HasData(row)

\* The description of an item.
Description(v, row) ==
  IF v = "joined"
  THEN Join(FilterTruthy(<<Get(row, COL.desc1), Get(row, COL.desc2)>>), " ")
  ELSE Get(row, COL.desc1)

\* The picture of an item.
Picture(v, row) ==
  IF v = "thumb" THEN buildDriveThumbnailUrl(Get(row, COL.picture))
  ELSE IF v = "download" THEN normalizeDriveUrl(Get(row, COL.picture))
  ELSE Get(row, COL.picture)

\* details.terminal1Range / terminal2Range from the bin cell.
TerminalRange(v, cell) == IF v = "download" THEN cell ELSE formatTermRange(cell)

\* A JavaScript value whose type matters to the reader of the JSON body:
\* a string (emitted in quotes) or a number.
JsString(s) == [type |-> "string", str |-> s, num |-> Num(0)]

JsNumber(k) == [type |-> "number", str |-> "", num |-> k]

\* A faulty Price, for testing what the price properties detect: a cell
\* that parses as a number is emitted as that number.
PriceCoerced(row) ==
  IF Trim(Get(row, COL.price)) = "" \/ NumberOf(Get(row, COL.price)).nan
  THEN JsString(Get(row, COL.price))
  ELSE JsNumber(NumberOf(Get(row, COL.price)))

\* details.price: the cell as it is read, a string.
Price(row) == JsString(Get(row, COL.price))

\* The details record of an item of the batchGet variants.
Details(v, row) ==
  [ terminal1Code |-> Get(row, COL.term1_code),
    terminal1Range |-> TerminalRange(v, Get(row, COL.term1_bin)),
    terminal1Tub |-> Get(row, COL.term1_tub),
    terminal2Code |-> Get(row, COL.term2_code),
    terminal2Range |-> TerminalRange(v, Get(row, COL.term2_bin)),
    terminal2Tub |-> Get(row, COL.term2_tub),
    mating |-> Get(row, COL.mating),
    price |-> Price(row),
    ford |-> Get(row, COL.ford),
    gm |-> Get(row, COL.gm),
    hyundaiKia |-> Get(row, COL.hyundaiKia),
    nissan |-> Get(row, COL.nissan),
    toyota |-> Get(row, COL.toyota),
    \* "thumb": altNumber; "download": altNumbers (split on commas)
    altNumbers |->
      IF v = "thumb" THEN <<Get(row, COL.desc2)>>
      ELSE IF v = "download"
      THEN FilterTruthy(TrimAll(SplitComma(Get(row, COL.desc2))))
      ELSE <<>> ]

\* The item built from a row.  src is the index of the row in the range: it
\* is not part of the emitted object and only traces the item to its row.
Item(v, row, k) ==
  IF v = "plain"
  THEN [ src |-> k,
         picture |-> Get(row, PlainCOL.picture),
         partNumber |-> Get(row, PlainCOL.partNumber),
         description |-> Get(row, PlainCOL.description),
         shop |-> Get(row, PlainCOL.shop),
         shopQty |-> Quantity(row, PlainCOL.shopQty),
         van |-> Get(row, PlainCOL.van),
         vanQty |-> Quantity(row, PlainCOL.vanQty),
         pins |-> Get(row, PlainCOL.pins),
         category |-> Get(row, PlainCOL.category),
         gender |-> Get(row, PlainCOL.gender),
         manufacturer |-> Get(row, PlainCOL.manufacturer),
         vehicle |-> Get(row, PlainCOL.vehicle),
         altNumber |-> Get(row, PlainCOL.altNumber),
         passNumber |-> Get(row, PlainCOL.passNumber),
         terminalSizes |-> Get(row, PlainCOL.terminalSizes) ]
  ELSE [ src |-> k,
         picture |-> Picture(v, row),
         partNumber |-> Get(row, COL.partNumber),
         description |-> Description(v, row),
         \* the first handler also emits the Alt Number cell at the top level
         altNumber |-> IF v = "thumb" THEN Get(row, COL.desc2) ELSE "",
         shop |-> Get(row, COL.shop),
         shopQty |-> Quantity(row, COL.shopQty),
         van |-> Get(row, COL.van),
         vanQty |-> Quantity(row, COL.vanQty),
         pins |-> Get(row, COL.pins),
         category |-> Get(row, COL.category),
         gender |-> Get(row, COL.gender),
         manufacturer |-> Get(row, COL.manufacturer),
         oems |-> Oems(row),
         vehicle |-> Join(Oems(row), ", "),
         terminalSizes |-> Get(row, COL.terminalSizes),
         details |-> Details(v, row) ]

\* The pins (or manufacturers) of the items in insertion order, each once:
\* the Set the single-range variant fills from its items.
RECURSIVE ColumnOf(_, _)
ColumnOf(its, field) ==
  IF its = <<>> THEN <<>>
  ELSE <<Head(its)[field]>> \o ColumnOf(Tail(its), field)

SetOrder(its, field) == Dedupe(FilterTruthy(ColumnOf(its, field)))

\* The comparator of the variant's pinOptions sort.
PinComparator(v) == IF v = "thumb" THEN "numberThenLocale" ELSE "numberDifference"

\* The comparator of the variant's manufacturerOptions sort.
ManufacturerComparator(v) == IF v = "thumb" THEN "locale" ELSE "default"

\* The comparator of the variant's termSizeOptions sort.
TermSizeComparator(v) == IF v = "thumb" THEN "numberThenLocale" ELSE "floatThenLocale"

\* The option list of a variant: from the items in the single-range
\* variant, from the Stats column elsewhere.
Options(v, its, field, statsRows, cmp) ==
  IF v = "plain" THEN SetOrder(its, field) ELSE OptionList(statsRows, cmp)

\* pinOptions of a variant
PinOptions(v, its, pinStatsRows) ==
  Options(v, its, "pins", pinStatsRows, PinComparator(v))

\* manufacturerOptions of a variant
ManufacturerOptions(v, its, supplierStatsRows) ==
  Options(v, its, "manufacturer", supplierStatsRows, ManufacturerComparator(v))

\* termSizeOptions of a variant (<<>> where the variant has none)
TermSizeOptions(v, termSizeStatsRows) ==
  IF v \in {"thumb", "download"}
  THEN OptionList(termSizeStatsRows, TermSizeComparator(v))
  ELSE <<>>

(***************************************************************************)
(* The Catalog Reader handler.                                             *)
(***************************************************************************)

VARIABLES
  variant,       \* which get-connectors.js is deployed
  method,        \* event.httpMethod
  env,           \* process.env: GOOGLE_SERVICE_ACCOUNT_JSON, SHEETS_SPREADSHEET_ID
  sheet,         \* what the tabular source answers to this request
  pc,            \* where the handler is
  rows,          \* the primary range as the handler holds it
  idx,           \* the next row of the loop (1-based)
  items,         \* the items pushed so far
  response,      \* the responses returned (a handler returns once)
  sheetCalls,    \* calls made to the tabular source
  pxVariant,     \* which image-proxy.js is deployed
  query,         \* event.queryStringParameters of the image request
  upstream,      \* what the image host answers to this request
  pxPc,          \* where the image handler is
  fetches,       \* outbound fetches issued by the image handler
  pxResponse     \* the responses returned by the image handler

catalogVars == <<variant, method, env, sheet, pc, rows, idx, items, response, sheetCalls>>

proxyVars == <<pxVariant, query, upstream, pxPc, fetches, pxResponse>>

vars == <<variant, method, env, sheet, pc, rows, idx, items, response, sheetCalls,
          pxVariant, query, upstream, pxPc, fetches, pxResponse>>

TextBody(s) == [kind |-> "text", text |-> s]

ErrorBody(msg) == [kind |-> "json", error |-> msg]

\* The 405 answer: plain text, or a JSON error in the single-range variant.
MethodNotAllowedResponse(v) ==
  IF v = "plain"
  THEN [statusCode |-> 405, body |-> ErrorBody("Method not allowed")]
  ELSE [statusCode |-> 405, body |-> TextBody("Method Not Allowed")]

\* The catch block: { statusCode: 500, body: JSON.stringify({ error: ... }) }
ServerErrorResponse(msg) == [statusCode |-> 500, body |-> ErrorBody(msg)]

\* The error reading the configuration raises, "" when it raises none.  The
\* single-range variant checks both settings before JSON.parse; the batchGet
\* variants hand GOOGLE_SERVICE_ACCOUNT_JSON to JSON.parse unchecked and
\* read SHEETS_SPREADSHEET_ID without looking at it.
ConfigError(v, e) ==
  IF v = "plain"
  THEN IF e.creds = "missing" \/ e.spreadsheetId = "missing"
       THEN "Missing GOOGLE_SERVICE_ACCOUNT_JSON or SHEETS_SPREADSHEET_ID env vars"
       ELSE IF e.creds = "malformed"
       THEN "Unexpected token in JSON"
       ELSE ""
  ELSE IF e.creds = "missing"
       THEN "SyntaxError: \"undefined\" is not valid JSON"
       ELSE IF e.creds = "malformed"
       THEN "SyntaxError: Unexpected token in JSON"
       ELSE ""

\* A faulty FetchError, for testing what the response properties detect: a
\* malformed answer of the tabular source goes unnoticed.
FetchErrorUnnoticed(v, e, sh) ==
  IF e.spreadsheetId = "missing" THEN "Error: Missing required parameters: spreadsheetId"
  ELSE IF sh.outcome = "error" THEN "Error: The caller does not have permission"
  ELSE ""

\* The error the call to the tabular source raises, "" when it answers with
\* well-formed value ranges.
FetchError(v, e, sh) ==
  LET shown(msg) == IF v = "plain" THEN msg ELSE "Error: " \o msg
  IN IF e.spreadsheetId = "missing"
     THEN shown("Missing required parameters: spreadsheetId")
     ELSE IF sh.outcome = "error"
     THEN shown("The caller does not have permission")
     ELSE IF sh.outcome = "malformed"
     THEN IF v = "plain" THEN "Cannot read properties of undefined"
          ELSE "TypeError: Cannot read properties of undefined"
     ELSE ""

\* The object given to JSON.stringify for the 200 answer.
CatalogBody(v, its, sh) ==
  [ kind |-> "json",
    items |-> its,
    pinOptions |-> PinOptions(v, its, sh.pinStatsRows),
    manufacturerOptions |-> ManufacturerOptions(v, its, sh.supplierStatsRows),
    termSizeOptions |-> TermSizeOptions(v, sh.termSizeStatsRows) ]

\* if (event.httpMethod !== "GET") return { statusCode: 405, ... }
MethodNotAllowed ==
  /\ pc = "start"
  /\ method # "GET"
  /\ response' = Append(response, MethodNotAllowedResponse(variant))
  /\ pc' = "done"
  /\ UNCHANGED <<variant, method, env, sheet, rows, idx, items, sheetCalls>>
  /\ UNCHANGED proxyVars

\* The configuration is read and the credentials parsed; a throw ends the
\* request in the catch block.
ReadConfig ==
  /\ pc = "start"
  /\ method = "GET"
  /\ IF ConfigError(variant, env) # ""
     THEN /\ response' = Append(response, ServerErrorResponse(ConfigError(variant, env)))
          /\ pc' = "done"
     ELSE /\ response' = response
          /\ pc' = "fetch"
  /\ UNCHANGED <<variant, method, env, sheet, rows, idx, items, sheetCalls>>
  /\ UNCHANGED proxyVars

\* await sheets.spreadsheets.values.batchGet(...) (values.get in the
\* single-range variant) and the reading of the value ranges.
BatchGet ==
  /\ pc = "fetch"
  /\ sheetCalls' = sheetCalls + 1
  /\ IF FetchError(variant, env, sheet) # ""
     THEN /\ response' = Append(response, ServerErrorResponse(FetchError(variant, env, sheet)))
          /\ pc' = "done"
          /\ rows' = rows
     ELSE /\ response' = response
          /\ pc' = "rows"
          /\ rows' = sheet.rows
  /\ UNCHANGED <<variant, method, env, sheet, idx, items>>
  /\ UNCHANGED proxyVars

\* One turn of the row loop (one element of rows.map).
NormalizeRow ==
  /\ pc = "rows"
  /\ idx <= Len(rows)
  /\ items' = IF Skips(variant, rows[idx]) THEN items
              ELSE Append(items, Item(variant, rows[idx], idx))
  /\ idx' = idx + 1
  /\ UNCHANGED <<variant, method, env, sheet, pc, rows, response, sheetCalls>>
  /\ UNCHANGED proxyVars

\* The option lists are built and the 200 answer returned.
Respond ==
  /\ pc = "rows"
  /\ idx > Len(rows)
  /\ response' = Append(response,
                   [statusCode |-> 200, body |-> CatalogBody(variant, items, sheet)])
  /\ pc' = "done"
  /\ UNCHANGED <<variant, method, env, sheet, rows, idx, items, sheetCalls>>
  /\ UNCHANGED proxyVars

CatalogNext ==
  \/ MethodNotAllowed
  \/ ReadConfig
  \/ BatchGet
  \/ NormalizeRow
  \/ Respond

(***************************************************************************)
(* The Image Resolver handler.                                             *)
(***************************************************************************)

\* The variants of image-proxy.js in the repository:
\*   "thumbnail" netlify/functions/image-proxy.js, first handler (?id=, w600)
\*   "generic"   netlify/functions/image-proxy.js, second handler (?url=)
\*   "download"  unnamed/part_001 (?id=, uc?export=download)
ProxyVariants == {"thumbnail", "generic", "download"}

\* The lower-case form of a character, as the i flag compares it.
ToLower(c) ==
  IF CharCode(c) >= 65 /\ CharCode(c) <= 90
  THEN Char(AsciiHigh, CharCode(c) - 64)
  ELSE c

LowerCase(s) ==
  LET F[i \in 0..Len(s)] == IF i = 0 THEN "" ELSE F[i - 1] \o ToLower(Char(s, i))
  IN F[Len(s)]

\* /^https?:\/\//i.test(url)
IsHttpUrl(url) ==
  \/ OccursAt(LowerCase(url), "http://", 1)
  \/ OccursAt(LowerCase(url), "https://", 1)

\* The characters encodeURIComponent leaves alone.
IsUnreserved(c) ==
  IsLetter(c) \/ IsDigit(c) \/ c \in {"-", "_", ".", "!", "~", "*", "'", "(", ")"}

\* encodeURIComponent for the characters of CharCode: %XX elsewhere.
EncodeURIComponent(s) ==
  LET hex(k) == Char("0123456789ABCDEF", k + 1)
      enc(c) == IF IsUnreserved(c) THEN c
                ELSE "%" \o hex(CharCode(c) \div 16) \o hex(CharCode(c) % 16)
      F[i \in 0..Len(s)] == IF i = 0 THEN "" ELSE F[i - 1] \o enc(Char(s, i))
  IN F[Len(s)]

\* The parameter the variant reads: queryStringParameters.url or .id, ""
\* when the parameters or the parameter are absent.
ImageParam(v, q) ==
  IF ~q.present THEN ""
  ELSE IF v = "generic" THEN q.url
  ELSE q.id

\* A faulty ValidationError, for testing what the validation properties
\* detect: the scheme of the url parameter is not looked at.
ValidationWithoutScheme(v, q) ==
  IF ~Truthy(ImageParam(v, q))
  THEN IF v = "thumbnail" THEN "Missing id parameter"
       ELSE IF v = "generic" THEN "Missing 'url' query parameter"
       ELSE "Missing id"
  ELSE "none"

\* The 400 answer of the validation, or "none" when the request passes.
ValidationError(v, q) ==
  IF ~Truthy(ImageParam(v, q))
  THEN IF v = "thumbnail" THEN "Missing id parameter"
       ELSE IF v = "generic" THEN "Missing 'url' query parameter"
       ELSE "Missing id"
  ELSE IF v = "generic" /\ ~IsHttpUrl(q.url) THEN "Invalid URL"
  ELSE "none"

\* The URL handed to fetch.
FetchUrl(v, q) ==
  IF v = "thumbnail"
  THEN "https://drive.google.com/thumbnail?id=" \o EncodeURIComponent(q.id) \o "&sz=w600"
  ELSE IF v = "generic" THEN q.url
  ELSE "https://drive.google.com/uc?export=download&id=" \o EncodeURIComponent(q.id)

\* A faulty Ok, for testing what the upstream-failure properties detect:
\* every status below 400 counts as a success.
OkBelow400(status) == status >= 200 /\ status < 400

\* Response.ok: a status in the range 200-299.
Ok(status) == status >= 200 /\ status <= 299

\* The catch block of the variant.
ProxyErrorResponse(v) ==
  [ statusCode |-> 500,
    body |-> TextBody(IF v = "thumbnail" THEN "Internal Server Error"
                      ELSE IF v = "generic" THEN "Image proxy error"
                      ELSE "Internal error") ]

\* The answer to an upstream response that is not ok.  The id variants read
\* the error text for the log first (await resp.text()), which can reject.
UpstreamFailureResponse(v, up) ==
  IF v = "generic"
  THEN [ statusCode |-> up.status,
         body |-> TextBody("Upstream error: " \o NumberToString(up.status) \o " " \o up.statusText) ]
  ELSE IF up.readFails THEN ProxyErrorResponse(v)
  ELSE IF v = "thumbnail"
  THEN [ statusCode |-> 502, body |-> TextBody("Failed to fetch image from Drive") ]
  ELSE [ statusCode |-> 502, body |-> TextBody("Upstream error " \o NumberToString(up.status)) ]

\* The answer to an ok upstream response: the bytes in base64 with the
\* content type (image/jpeg when the header is absent) and a cache header.
ImageResponse(v, up) ==
  IF up.readFails THEN ProxyErrorResponse(v)
  ELSE [ statusCode |-> 200,
         headers |->
           [ contentType |-> IF Truthy(up.contentType) THEN up.contentType ELSE "image/jpeg",
             cacheControl |-> IF v = "download" THEN "public, max-age=31536000"
                              ELSE "public, max-age=86400" ],
         body |-> [kind |-> "base64", bytes |-> up.bytes],
         isBase64Encoded |-> TRUE ]

\* The parameter is read and validated.
Validate ==
  /\ pxPc = "start"
  /\ IF ValidationError(pxVariant, query) # "none"
     THEN /\ pxResponse' = Append(pxResponse,
                             [ statusCode |-> 400,
                               body |-> TextBody(ValidationError(pxVariant, query)) ])
          /\ pxPc' = "done"
     ELSE /\ pxResponse' = pxResponse
          /\ pxPc' = "fetch"
  /\ UNCHANGED <<pxVariant, query, upstream, fetches>>
  /\ UNCHANGED catalogVars

\* A faulty AfterFetch, for testing what the single-fetch property detects:
\* a rejected fetch is tried again.
AfterFetchRetry(up) == IF up.outcome = "rejects" THEN "fetch" ELSE "relay"

\* Where the handler stands after await fetch(url): in the catch block,
\* which returns, when the promise rejects; at the test of resp.ok otherwise.
AfterFetch(up) == IF up.outcome = "rejects" THEN "done" ELSE "relay"

\* await fetch(url): the promise rejects or resolves with a response.
Fetch ==
  /\ pxPc = "fetch"
  /\ fetches' = Append(fetches, FetchUrl(pxVariant, query))
  /\ pxResponse' = IF upstream.outcome = "rejects"
                   THEN Append(pxResponse, ProxyErrorResponse(pxVariant))
                   ELSE pxResponse
  /\ pxPc' = AfterFetch(upstream)
  /\ UNCHANGED <<pxVariant, query, upstream>>
  /\ UNCHANGED catalogVars

\* The upstream response is turned into the handler's answer.
Relay ==
  /\ pxPc = "relay"
  /\ pxResponse' = Append(pxResponse,
                     IF Ok(upstream.status) THEN ImageResponse(pxVariant, upstream)
                     ELSE UpstreamFailureResponse(pxVariant, upstream))
  /\ pxPc' = "done"
  /\ UNCHANGED <<pxVariant, query, upstream, fetches>>
  /\ UNCHANGED catalogVars

ProxyNext ==
  \/ Validate
  \/ Fetch
  \/ Relay

(***************************************************************************)
(* Requests: the inputs the handlers are run on.                           *)
(***************************************************************************)

\* The sequences over S of length at most n.
SeqsUpTo(S, n) == UNION { [1..k -> S] : k \in 0..n }

\* The strings over the characters in alphabet of length at most n.
RECURSIVE StringsUpTo(_, _)
StringsUpTo(alphabet, n) ==
  IF n = 0 THEN {""}
  ELSE LET shorter == StringsUpTo(alphabet, n - 1)
       IN shorter \cup { s \o c : s \in shorter, c \in alphabet }

\* The row of a range whose cell at (0-based) column i is cells[i] and whose
\* other cells are empty.  The tabular source leaves out the empty cells at
\* the end of a row, so the row stops at its last non-empty cell.
RowWith(cells) ==
  LET filled == { i \in DOMAIN cells : cells[i] # "" }
      last == IF filled = {} THEN 0 - 1
              ELSE CHOOSE i \in filled : \A j \in filled : j <= i
  IN [ k \in 1..(last + 1) |-> IF (k - 1) \in DOMAIN cells THEN cells[k - 1] ELSE "" ]

\* The column map a variant reads its rows with.
ColOf(v) == IF v = "plain" THEN PlainCOL ELSE COL

\* The column a variant reads the description from.
DescriptionCol(v) == IF v = "plain" THEN PlainCOL.description ELSE COL.desc1

Methods == {"GET", "POST"}

Envs == [creds : {"missing", "malformed", "valid"}, spreadsheetId : {"missing", "present"}]

GoodEnv == [creds |-> "valid", spreadsheetId |-> "present"]

Outcomes == {"ok", "error", "malformed"}

\* A well-formed answer of the tabular source.
Answer(rs, pinStats, supplierStats, termStats) ==
  [ outcome |-> "ok", rows |-> rs, pinStatsRows |-> pinStats,
    supplierStatsRows |-> supplierStats, termSizeStatsRows |-> termStats ]

\* An answer carrying rows, with a small fixed Stats sheet.
RowsAnswer(rs) ==
  Answer(rs, <<<<"4">>, <<"2">>>>, <<<<"Molex">>, <<"Aptiv">>>>, <<<<"2">>>>)

EmptyAnswer(o) ==
  [ outcome |-> o, rows |-> <<>>, pinStatsRows |-> <<>>,
    supplierStatsRows |-> <<>>, termSizeStatsRows |-> <<>> ]

\* The image handler is not running.
ProxyOff ==
  /\ pxVariant = "thumbnail"
  /\ query = [present |-> FALSE, id |-> "", url |-> ""]
  /\ upstream = [outcome |-> "rejects"]
  /\ pxPc = "off"
  /\ fetches = <<>>
  /\ pxResponse = <<>>

\* The catalog handler is not running.
CatalogOff ==
  /\ variant = "thumb"
  /\ method = "GET"
  /\ env = GoodEnv
  /\ sheet = EmptyAnswer("ok")
  /\ pc = "off"
  /\ rows = <<>>
  /\ idx = 1
  /\ items = <<>>
  /\ response = <<>>
  /\ sheetCalls = 0

\* A catalog request arrives.
CatalogStart(v, m, e, sh) ==
  /\ variant = v
  /\ method = m
  /\ env = e
  /\ sheet = sh
  /\ pc = "start"
  /\ rows = <<>>
  /\ idx = 1
  /\ items = <<>>
  /\ response = <<>>
  /\ sheetCalls = 0
  /\ ProxyOff

\* The requests every catalog specification starts from besides its own:
\* any method, any configuration, any outcome of the tabular source.
AnyRequest(v) ==
  \E m \in Methods, e \in Envs, o \in Outcomes : CatalogStart(v, m, e, EmptyAnswer(o))

\* A GET with good configuration answered with the rows rs.
GoodRequest(v, rs) == CatalogStart(v, "GET", GoodEnv, RowsAnswer(rs))

\* The six significant columns of a variant: part number, description, shop,
\* van, pins, category.
SignificantCols(v) ==
  { ColOf(v).partNumber, DescriptionCol(v), ColOf(v).shop, ColOf(v).van,
    ColOf(v).pins, ColOf(v).category }

MaxRows == 2

\* Rows for the blank-row filter: nothing at all, one significant cell
\* filled or holding a blank, all six filled or holding blanks, and rows
\* with data in insignificant columns only.
BlankRows(v) ==
  LET sig == SignificantCols(v)
      one(c, val) == RowWith([i \in sig |-> IF i = c THEN val ELSE ""])
  IN { <<>> }
       \cup { one(c, "A") : c \in sig }
       \cup { one(c, " ") : c \in sig }
       \cup { RowWith([i \in sig |-> " "]), RowWith([i \in sig |-> "A"]) }
       \cup { RowWith(ColOf(v).shopQty :> "5"), RowWith(ColOf(v).gender :> "M") }

InitBlankRows ==
  \E v \in Variants :
    \/ AnyRequest(v)
    \/ \E rs \in SeqsUpTo(BlankRows(v), MaxRows) : GoodRequest(v, rs)

SpecBlankRows == InitBlankRows /\ [][CatalogNext]_vars

MaxQtyLen == 2

QtyCells == StringsUpTo({"1", "2", "0", "-", " ", "x"}, MaxQtyLen)

\* Rows with a part number and one of the two quantity cells set.
QtyRows(v) ==
  { RowWith((ColOf(v).partNumber :> "P") @@ (ColOf(v).shopQty :> c)) : c \in QtyCells }
    \cup { RowWith((ColOf(v).partNumber :> "P") @@ (ColOf(v).vanQty :> c)) : c \in QtyCells }

InitQuantities ==
  \E v \in Variants :
    \/ AnyRequest(v)
    \/ \E r \in QtyRows(v) : GoodRequest(v, <<r>>)

SpecQuantities == InitQuantities /\ [][CatalogNext]_vars

(***************************************************************************)
(* Properties of the row loop.                                             *)
(***************************************************************************)

\* The handler has answered 200.
Answered200 == pc = "done" /\ response[1].statusCode = 200

\* The rows the items were built from, in the order of the items.
ItemSources(its) == [i \in 1..Len(its) |-> its[i].src]

\* A row with at least one significant field that is not empty after trimming.
SignificantRow(v, row) == \E c \in SignificantCols(v) : Trim(Get(row, c)) # ""

\* The positions of the significant rows, in source order.
SignificantSources(v, rs) ==
  SelectSeq([i \in 1..Len(rs) |-> i], LAMBDA i : SignificantRow(v, rs[i]))

\* C1: the items returned are exactly the rows with at least one significant
\* field (part number, description, shop, van, pins, category) non-empty
\* after trimming, one item per such row, in source order.
C1_BlankRowsDropped ==
  Answered200 =>
    ItemSources(response[1].body.items) = SignificantSources(variant, rows)

\* TRUE when s[a..b] is an optionally signed run of digits and the rest of
\* s is white space.
NumericCore(s, a, b) ==
  /\ \A i \in 1..(a - 1) : IsSpace(Char(s, i))
  /\ \A i \in (b + 1)..Len(s) : IsSpace(Char(s, i))
  /\ \A i \in (a + 1)..b : IsDigit(Char(s, i))
  /\ IsDigit(Char(s, a)) \/ (Char(s, a) \in {"+", "-"} /\ b > a)

\* A numeric string: an optionally signed decimal integer, possibly with
\* white space around it.
IsNumericString(s) == \E a, b \in 1..Len(s) : a <= b /\ NumericCore(s, a, b)

\* A string of digits without its leading zeros.
RECURSIVE StripZeros(_)
StripZeros(d) == IF Char(d, 1) = "0" THEN StripZeros(SubSeq(d, 2, Len(d))) ELSE d

Abs(k) == IF k < 0 THEN 0 - k ELSE k

\* TRUE when the numeric string s denotes the integer k: its digits without
\* leading zeros are the decimal digits of |k|, and it has a minus sign
\* whenever k is negative and none when k is positive.
Denotes(s, k) ==
  \E a, b \in 1..Len(s) :
    /\ a <= b
    /\ NumericCore(s, a, b)
    /\ StripZeros(SubSeq(s, IF IsDigit(Char(s, a)) THEN a ELSE a + 1, b))
         = (IF k = 0 THEN "" ELSE NumberToString(Abs(k)))
    /\ k < 0 => Char(s, a) = "-"
    /\ k > 0 => Char(s, a) # "-"

\* The quantity q emitted for the quantity cell: never NaN, 0 for a cell
\* that is missing, empty or not numeric, the value of a numeric cell.
QuantityRight(cell, q) ==
  /\ ~q.nan
  /\ ~IsNumericString(cell) => q = Num(0)
  /\ IsNumericString(cell) => Denotes(cell, q.n)

\* C2: for every item and both quantity fields, the quantity is 0 when the
\* cell is missing, empty or a non-numeric string and the numeric value of
\* the cell when it is a numeric string; it is never NaN, and a request with
\* good configuration and a well-formed answer never ends in the catch block.
C2_QuantitiesParsed ==
  /\ \A i \in 1..Len(items) :
       /\ QuantityRight(Get(rows[items[i].src], ColOf(variant).shopQty), items[i].shopQty)
       /\ QuantityRight(Get(rows[items[i].src], ColOf(variant).vanQty), items[i].vanQty)
  /\ (pc = "done" /\ method = "GET" /\ env = GoodEnv /\ sheet.outcome = "ok")
       => Answered200

\* A request has been answered with an item whose shop quantity cell is a
\* numeric string of two digits, and one whose van quantity cell is not
\* numeric is among the requests too.
C2_Witness ==
  /\ Answered200
  /\ \E i \in 1..Len(items) :
       /\ IsNumericString(Get(rows[items[i].src], ColOf(variant).shopQty))
       /\ items[i].shopQty.n > 9

(***************************************************************************)
(* Vehicle compatibility.                                                  *)
(***************************************************************************)

\* The values of an OEM flag cell: empty, or any non-empty text.
FlagCells == {"", "x", "0"}

\* The OEM flag columns in sheet order (R..V).
FlagCols == <<COL.ford, COL.gm, COL.hyundaiKia, COL.nissan, COL.toyota>>

\* Rows with a part number, the five flag cells, and text naming an OEM in
\* a cell that is no flag.
OemRows ==
  { RowWith((COL.partNumber :> "P") @@ (COL.desc1 :> d)
            @@ [c \in {FlagCols[k] : k \in 1..5} |->
                  f[CHOOSE k \in 1..5 : FlagCols[k] = c]]) :
      d \in {"", "Toyota"}, f \in [1..5 -> FlagCells] }

InitOems ==
  \/ \E v \in Variants : AnyRequest(v)
  \/ \E v \in BatchVariants, r \in OemRows : GoodRequest(v, <<r>>)

SpecOems == InitOems /\ [][CatalogNext]_vars

\* The fixed order of the OEM names.
OemOrder == <<"Ford", "GM", "HyundaiKia", "Nissan", "Toyota">>

\* The flag of the k-th OEM is true: its cell of the row is not empty.
Flag(row, k) == Get(row, FlagCols[k]) # ""

\* The names from the k-th on whose flag is true, separated by ", ".
RECURSIVE Flagged(_, _)
Flagged(row, k) ==
  IF k > Len(OemOrder) THEN ""
  ELSE IF ~Flag(row, k) THEN Flagged(row, k + 1)
  ELSE IF Flagged(row, k + 1) = "" THEN OemOrder[k]
  ELSE OemOrder[k] \o ", " \o Flagged(row, k + 1)

\* C3: in the variants that read OEM flags, every item's vehicle string is
\* the ", "-joined list of exactly the OEM names whose flag cell is not
\* empty, in the order Ford, GM, HyundaiKia, Nissan, Toyota, whatever the
\* other cells hold; flags Ford and Nissan alone give "Ford, Nissan"; an
\* OEM whose flag is false does not appear in the string.
C3_VehicleFromFlags ==
  variant \in BatchVariants =>
    \A i \in 1..Len(items) :
      /\ items[i].vehicle = Flagged(rows[items[i].src], 1)
      /\ \A k \in 1..5 :
           Includes(items[i].vehicle, OemOrder[k]) <=> Flag(rows[items[i].src], k)
      /\ (\A k \in 1..5 : Flag(rows[items[i].src], k) <=> k \in {1, 4})
           => items[i].vehicle = "Ford, Nissan"

\* A request has been answered with an item whose Ford and Nissan flags
\* alone are set.
C3_Witness ==
  /\ Answered200
  /\ \E i \in 1..Len(items) :
       /\ \A k \in 1..5 : Flag(rows[items[i].src], k) <=> k \in {1, 4}
       /\ items[i].vehicle = "Ford, Nissan"

(***************************************************************************)
(* Terminal ranges.                                                        *)
(***************************************************************************)

MaxTermLen == 4

\* Bin cells: every string of #, digit, dash and blank up to MaxTermLen, and
\* longer cells as they appear in the sheet.
TermCells ==
  StringsUpTo({"#", "1", "-", " "}, MaxTermLen)
    \cup { "Terminals #1-8", "Terminals # 12 - 16", "N/A", "#1 #2-3 #4-5",
           "Bin 4 #7 - 9 (left)", "# 1 -", "1-8" }

\* Rows with a part number and one of the two bin cells set.
TermRows ==
  { RowWith((COL.partNumber :> "P") @@ (COL.term1_bin :> c)) : c \in TermCells }
    \cup { RowWith((COL.partNumber :> "P") @@ (COL.term2_bin :> c)) : c \in TermCells }

InitTermRanges ==
  \/ \E v \in Variants : AnyRequest(v)
  \/ \E v \in BatchVariants, r \in TermRows : GoodRequest(v, <<r>>)

SpecTermRanges == InitTermRanges /\ [][CatalogNext]_vars

\* TRUE when every character of s[a..b] satisfies P.
AllIn(s, a, b, cls) == \A k \in a..b : InClass(cls, Char(s, k))

\* TRUE when s[a..b] is digits, a dash, digits, with optional white space
\* on either side of the dash.
IsRange(s, a, b) ==
  \E m \in (a + 1)..(b - 1) :
    /\ Char(s, m) = "-"
    /\ \E p \in a..(m - 1), q \in (m + 1)..b :
         /\ AllIn(s, a, p, "digit") /\ AllIn(s, p + 1, m - 1, "space")
         /\ AllIn(s, m + 1, q - 1, "space") /\ AllIn(s, q, b, "digit")

\* TRUE when there is a # at h, followed after optional white space by the
\* range s[a..b].
HashRange(s, h, a, b) ==
  /\ Char(s, h) = "#"
  /\ h < a
  /\ AllIn(s, h + 1, a - 1, "space")
  /\ IsRange(s, a, b)

\* The # positions of s that a range follows.
Hashes(s) == { h \in 1..Len(s) : \E a, b \in (h + 1)..Len(s) : HashRange(s, h, a, b) }

\* s[a..b] without its white space.
RECURSIVE Squeezed(_, _, _)
Squeezed(s, a, b) ==
  IF a > b THEN ""
  ELSE (IF IsSpace(Char(s, a)) THEN "" ELSE Char(s, a)) \o Squeezed(s, a + 1, b)

\* "T:" and the whole range that follows the # at h, white space removed.
Labelled(s, h) ==
  "T:" \o Squeezed(s,
             CHOOSE a \in (h + 1)..Len(s) : \E b \in a..Len(s) : HashRange(s, h, a, b),
             Max({ b \in (h + 1)..Len(s) : \E a \in (h + 1)..b : HashRange(s, h, a, b) }))

\* The transform of a bin cell: "T:" and the first range that follows a #
\* when there is one, the text itself otherwise.
TermRangeOf(s) == IF Hashes(s) = {} THEN s ELSE Labelled(s, Min(Hashes(s)))

\* C4: formatTermRange returns for every input: "T:" and the first
\* #-introduced digits-dash-digits range without its white space when the
\* text has one ("Terminals #1-8" gives "T:1-8", "Terminals # 12 - 16" gives
\* "T:12-16"), the text unchanged otherwise ("N/A" gives "N/A"); and every
\* item's terminal1Range and terminal2Range are this transform of the
\* corresponding bin cell.
C4_TermRangesTransformed ==
  /\ formatTermRange("Terminals #1-8") = "T:1-8"
  /\ formatTermRange("Terminals # 12 - 16") = "T:12-16"
  /\ formatTermRange("N/A") = "N/A"
  /\ variant \in BatchVariants =>
       \A i \in 1..Len(items) :
         /\ items[i].details.terminal1Range
              = TermRangeOf(Get(rows[items[i].src], COL.term1_bin))
         /\ items[i].details.terminal2Range
              = TermRangeOf(Get(rows[items[i].src], COL.term2_bin))

(***************************************************************************)
(* Prices.                                                                 *)
(***************************************************************************)

MaxPriceLen == 3

\* Price cells: every string of digits, currency sign and blank up to
\* MaxPriceLen, and annotations.
PriceCells ==
  StringsUpTo({"1", "0", "$", " "}, MaxPriceLen) \cup {"call for quote", "12 each", "N/A"}

\* Rows with a part number and a price cell; the empty cell is a missing one.
PriceRows == { RowWith((COL.partNumber :> "P") @@ (COL.price :> c)) : c \in PriceCells }

InitPrices ==
  \/ \E v \in Variants : AnyRequest(v)
  \/ \E v \in BatchVariants, r \in PriceRows : GoodRequest(v, <<r>>)

SpecPrices == InitPrices /\ [][CatalogNext]_vars

\* The price p emitted for a cell under number-when-it-parses: the number a
\* numeric cell denotes, the cell itself otherwise.
NumberWhenParses(cell, p) ==
  IF IsNumericString(cell)
  THEN p.type = "number" /\ ~p.num.nan /\ Denotes(cell, p.num.n)
  ELSE p = JsString(cell)

\* C5 as stated: for every row, details.price is a number when the price
\* cell is non-empty and parses cleanly as a number, and the original cell
\* string otherwise.
C5_PriceNumberWhenParses ==
  variant \in BatchVariants =>
    \A i \in 1..Len(items) :
      NumberWhenParses(Get(rows[items[i].src], COL.price), items[i].details.price)

\* C5, amended: for every row, details.price is the price cell as a string,
\* unchanged, whether or not it parses as a number ("" for a missing cell);
\* it is never a number, never coerced to 0 and never dropped.
C5_PricePassedThrough ==
  variant \in BatchVariants =>
    \A i \in 1..Len(items) :
      /\ items[i].details.price.type = "string"
      /\ items[i].details.price.str = Get(rows[items[i].src], COL.price)

\* A request has been answered with an item whose price cell is a numeric
\* string, emitted as that string.
C5_Witness ==
  /\ Answered200
  /\ \E i \in 1..Len(items) :
       /\ Get(rows[items[i].src], COL.price) = "10"
       /\ items[i].details.price = JsString("10")

(***************************************************************************)
(* Option lists.                                                           *)
(***************************************************************************)

MaxStats == 3

\* Rows of a Stats column: a cell with a number, with text, with both, an
\* empty cell, or a row without cells.
StatsRows == { <<"2">>, <<"10">>, <<"1a">>, <<"x">>, <<"">>, <<>> }

\* Stats columns: every column of up to MaxStats rows, and the column
\* 4, 2, 4, "", 8.
StatsColumns ==
  SeqsUpTo(StatsRows, MaxStats) \cup { << <<"4">>, <<"2">>, <<"4">>, <<"">>, <<"8">> >> }

\* A GET answered with one row and the column col for both the pin counts
\* and the terminal sizes.
InitOptions ==
  \/ \E v \in Variants : AnyRequest(v)
  \/ \E v \in BatchVariants, col \in StatsColumns :
       CatalogStart(v, "GET", GoodEnv,
                    Answer(<<RowWith(COL.partNumber :> "P")>>, col,
                           <<<<"Molex">>, <<"Aptiv">>>>, col))

SpecOptions == InitOptions /\ [][CatalogNext]_vars

\* The distinct non-empty values of a column.
ColumnValues(col) == { col[i][1] : i \in { k \in 1..Len(col) : Len(col[k]) >= 1 } } \ {""}

\* The number a numeric string of at most two digits denotes.
ValueOf(s) == CHOOSE k \in 0..99 : Denotes(s, k)

\* a comes before b in the lexicographic order of their code units.
LexLess(a, b) ==
  \E k \in 1..Len(b) :
    /\ Len(a) >= k - 1
    /\ SubSeq(a, 1, k - 1) = SubSeq(b, 1, k - 1)
    /\ Len(a) = k - 1 \/ CharCode(Char(a, k)) < CharCode(Char(b, k))

\* Numeric-ascending when every value is numeric, lexicographic otherwise.
Ordered(list) ==
  IF \A i \in 1..Len(list) : IsNumericString(list[i])
  THEN \A i, j \in 1..Len(list) : i < j => ValueOf(list[i]) <= ValueOf(list[j])
  ELSE \A i, j \in 1..Len(list) : i < j => LexLess(list[i], list[j])

\* The rearrangements of a column.
Rearranged(col) ==
  { [i \in 1..Len(col) |-> col[f[i]]] : f \in Permutations(1..Len(col)) }

\* The option list is right for the column: no empty entry, no duplicate,
\* exactly the distinct non-empty values, ordered, and the same list for
\* every order of the column.
ListRight(col, list, cmp) ==
  /\ \A i \in 1..Len(list) : list[i] # ""
  /\ \A i, j \in 1..Len(list) : i # j => list[i] # list[j]
  /\ { list[i] : i \in 1..Len(list) } = ColumnValues(col)
  /\ Ordered(list)
  /\ \A other \in Rearranged(col) : OptionList(other, cmp) = list

\* C6: the option lists for pin counts and for terminal sizes have no empty
\* entry and no duplicate, hold exactly the distinct non-empty values of the
\* column, are numeric-ascending when every value parses as a number and
\* lexicographic as a whole otherwise, and do not depend on the order of
\* the column; the column 4, 2, 4, "", 8 yields 2, 4, 8.
C6_OptionLists ==
  (Answered200 /\ variant \in BatchVariants) =>
    /\ ListRight(sheet.pinStatsRows, response[1].body.pinOptions, PinComparator(variant))
    /\ variant \in {"thumb", "download"} =>
         ListRight(sheet.termSizeStatsRows, response[1].body.termSizeOptions,
                   TermSizeComparator(variant))
    /\ sheet.pinStatsRows = << <<"4">>, <<"2">>, <<"4">>, <<"">>, <<"8">> >>
         => response[1].body.pinOptions = <<"2", "4", "8">>

(***************************************************************************)
(* Image references.                                                       *)
(***************************************************************************)

\* Query strings: none, the identifier alone, after another parameter,
\* before another parameter, and without an identifier.
Queries == {"", "?id=CCC", "?export=view&id=CCC", "?id=CCC&sz=w400", "?usp=sharing"}

\* References to the recognized host.
DriveRefs ==
  { "https://drive.google.com" \o path \o q :
      path \in {"", "/file/d/AAA/view", "/uc", "/thumbnail"}, q \in Queries }

\* References to an unrelated CDN host.
CdnRefs ==
  { "https://cdn.example.com" \o path \o q :
      path \in {"/img/x.png", "/d/BBB", ""}, q \in Queries }

\* Bare tokens of 19, 20, 25 and 33 characters, and short text.
BareRefs ==
  { "1DkJngqekuCgrFz0wF1", "1DkJngqekuCgrFz0wF13", "1DkJngqekuCgrFz0wF13MlOVP",
    "1DkJngqekuCgrFz0wF13MlOVPj59Zk3cj", "n/a", "photo_1.png" }

\* A reference as it is stored: bare, quoted, or quoted with blanks around.
Stored(ref) == { ref, "'" \o ref \o "'", " \"" \o ref \o "\" " }

PictureCells ==
  {"", " ", "''"} \cup UNION { Stored(ref) : ref \in DriveRefs \cup CdnRefs \cup BareRefs }

PictureRows == { RowWith((COL.partNumber :> "P") @@ (COL.picture :> c)) : c \in PictureCells }

InitPictures ==
  \/ \E v \in Variants : AnyRequest(v)
  \/ \E v \in BatchVariants, r \in PictureRows : GoodRequest(v, <<r>>)

SpecPictures == InitPictures /\ [][CatalogNext]_vars

\* The variants that resolve the picture cell.
Resolving == {"thumb", "download"}

\* The positions of s where the query-parameter form ?id=ID or &id=ID starts.
QueryForms(s) ==
  { p \in 1..Len(s) :
      (OccursAt(s, "?id=", p) \/ OccursAt(s, "&id=", p)) /\ IsIdChar(Char(s, p + 4)) }

\* The positions of s where the path-segment form /file/d/ID starts.
PathForms(s) == { p \in 1..Len(s) : OccursAt(s, "/file/d/", p) /\ IsIdChar(Char(s, p + 8)) }

\* The bare-identifier form: a long token and nothing else.
IsBareId(s) == Len(s) >= MinBareIdLen /\ AllIn(s, 1, Len(s), "id")

\* The reference shows the recognized hosting pattern: it names the host or
\* is a bare identifier.
Recognized(s) == Includes(s, "drive.google.com") \/ IsBareId(s)

\* The identifier of a reference by the three forms in priority order, ""
\* when none matches.
IdentifierOf(s) ==
  IF QueryForms(s) # {} THEN RunAt(s, Min(QueryForms(s)) + 4, "id")
  ELSE IF PathForms(s) # {} THEN RunAt(s, Min(PathForms(s)) + 8, "id")
  ELSE IF IsBareId(s) THEN s
  ELSE ""

\* C7: a stored reference without indication of the recognized hosting
\* pattern, such as a URL on a CDN host with any path and query string,
\* resolves to itself with the surrounding white space and quotes trimmed;
\* an empty reference resolves to the empty string.
C7_UnrecognizedPassThrough ==
  variant \in Resolving =>
    \A i \in 1..Len(items) :
      /\ Get(rows[items[i].src], COL.picture) = "" => items[i].picture = ""
      /\ ~Recognized(CleanRef(Get(rows[items[i].src], COL.picture)))
           => items[i].picture = CleanRef(Get(rows[items[i].src], COL.picture))

\* The picture is right for the recognized reference s whose identifier by
\* the three forms is id: a URL carrying exactly id as its identifier, or s
\* itself when there is no identifier.
ResolvedBy(s, id, picture) ==
  IF id = "" THEN picture = s
  ELSE /\ OccursAt(picture, "https://", 1)
       /\ QueryForms(picture) # {}
       /\ IdentifierOf(picture) = id

\* C8: for a reference that shows the recognized hosting pattern the
\* identifier is the one of the query-parameter form if that form matches,
\* else the one of the path-segment form, else the bare identifier; the
\* resolved URL carries exactly that identifier (also for a bare token of 25
\* characters); without an identifier the trimmed reference is returned.
C8_IdentifierPriority ==
  variant \in Resolving =>
    \A i \in 1..Len(items) :
      Recognized(CleanRef(Get(rows[items[i].src], COL.picture))) =>
        ResolvedBy(CleanRef(Get(rows[items[i].src], COL.picture)),
                   IdentifierOf(CleanRef(Get(rows[items[i].src], COL.picture))),
                   items[i].picture)

(***************************************************************************)
(* Image Resolver requests.                                                *)
(***************************************************************************)

\* Values of the id parameter.
Ids == {"", "abc", "a b&c", "1DkJngqekuCgrFz0wF13MlOVP"}

\* Values of the url parameter.
Urls ==
  { "", "http://x.org/a.png", "https://x.org/a.png", "HTTPS://x.org/a.png",
    "ftp://x.org/a.png", "file:///etc/passwd", "javascript:alert(1)",
    "//x.org/a.png", "x.org/?u=http://y.org" }

\* event.queryStringParameters: null, or an object with id and url ("" for
\* an absent or empty parameter).
QueryParams ==
  { [present |-> FALSE, id |-> "", url |-> ""] }
    \cup [present : {TRUE}, id : Ids, url : Urls]

\* Statuses of an upstream response.
Statuses == {200, 204, 304, 403, 404, 500, 503}

StatusText(status) ==
  CASE status = 200 -> "OK"
    [] status = 204 -> "No Content"
    [] status = 304 -> "Not Modified"
    [] status = 403 -> "Forbidden"
    [] status = 404 -> "Not Found"
    [] status = 500 -> "Internal Server Error"
    [] OTHER -> "Service Unavailable"

\* What the fetch does: the promise rejects, or resolves with a response
\* whose body may fail to be read.
Upstreams ==
  { [outcome |-> "rejects"] }
    \cup { [ outcome |-> "responds", status |-> s, statusText |-> StatusText(s),
             contentType |-> ct, readFails |-> rf, bytes |-> "image-bytes" ] :
           s \in Statuses, ct \in {"", "image/png"}, rf \in BOOLEAN }

InitProxy ==
  /\ CatalogOff
  /\ pxVariant \in ProxyVariants
  /\ query \in QueryParams
  /\ upstream \in Upstreams
  /\ pxPc = "start"
  /\ fetches = <<>>
  /\ pxResponse = <<>>

SpecProxy == InitProxy /\ [][ProxyNext]_vars

\* The image parameter of the request is missing or empty.
ParamMissing ==
  \/ ~query.present
  \/ pxVariant = "generic" /\ query.url = ""
  \/ pxVariant # "generic" /\ query.id = ""

\* The scheme of a URL: what precedes the first "://", in lower case.
SchemeOf(url) ==
  IF Includes(url, "://")
  THEN LowerCase(SubSeq(url, 1, Min({ p \in 1..Len(url) : OccursAt(url, "://", p) }) - 1))
  ELSE ""

\* The request carries a URL-form parameter whose scheme is neither http
\* nor https.
SchemeRefused ==
  pxVariant = "generic" /\ query.present /\ SchemeOf(query.url) \notin {"http", "https"}

\* C9: a request whose image parameter is missing or empty, or whose
\* URL-form parameter does not use the http or https scheme, is answered
\* 400, and no fetch is issued for it, before the answer or after.
C9_InvalidRequestRefused ==
  (pxPc # "off" /\ (ParamMissing \/ SchemeRefused)) =>
    /\ fetches = <<>>
    /\ pxPc \in {"start", "done"}
    /\ pxPc = "done" => (Len(pxResponse) = 1 /\ pxResponse[1].statusCode = 400)

\* A request with the url parameter ftp://x.org/a.png has been answered.
C9_Witness ==
  /\ pxPc = "done"
  /\ pxVariant = "generic"
  /\ query.url = "ftp://x.org/a.png"
  /\ pxResponse[1].statusCode = 400

\* The request passed validation and the fetch returned a response with a
\* status outside 200-299, and the handler has answered.
UpstreamFailed ==
  /\ pxPc = "done"
  /\ ~(ParamMissing \/ SchemeRefused)
  /\ upstream.outcome = "responds"
  /\ upstream.status \notin 200..299

\* C10 as stated: after a non-success upstream status the answer is a 5xx
\* that carries the upstream status, never a 200, never an image body.
C10_GatewayErrorWithStatus ==
  UpstreamFailed =>
    /\ pxResponse[1].statusCode \in 500..599
    /\ pxResponse[1].body.kind = "text"
    /\ Includes(pxResponse[1].body.text, NumberToString(upstream.status))

\* C10, amended: after a non-success upstream status the answer is never a
\* 200 and never an image body, but a text body with a non-success status:
\* the url variant relays the upstream status as it is (a 404 stays a 404)
\* and names it in the body; the id variants answer 502, or 500 when the
\* upstream error text cannot be read, and only the download variant names
\* the upstream status in the body of its 502.
C10_UpstreamFailureSurfaced ==
  UpstreamFailed =>
    /\ pxResponse[1].statusCode \notin 200..299
    /\ pxResponse[1].body.kind = "text"
    /\ "isBase64Encoded" \notin DOMAIN pxResponse[1]
    /\ pxVariant = "generic" =>
         /\ pxResponse[1].statusCode = upstream.status
         /\ Includes(pxResponse[1].body.text, NumberToString(upstream.status))
    /\ pxVariant # "generic" =>
         pxResponse[1].statusCode = (IF upstream.readFails THEN 500 ELSE 502)
    /\ (pxVariant = "download" /\ ~upstream.readFails) =>
         Includes(pxResponse[1].body.text, NumberToString(upstream.status))

\* The url variant has answered an upstream 404, and the relayed status is
\* that 404.
C10_Witness ==
  /\ UpstreamFailed
  /\ pxVariant = "generic"
  /\ upstream.status = 404
  /\ pxResponse[1].statusCode = 404

(***************************************************************************)
(* Catalog Reader requests of every kind.                                  *)
(***************************************************************************)

\* A few rows: a full one, one with a quantity that is no number, a blank
\* one.
SomeRows ==
  { RowWith((COL.partNumber :> "P") @@ (COL.shopQty :> "3") @@ (COL.pins :> "4")),
    RowWith((COL.partNumber :> "Q") @@ (COL.vanQty :> "x")),
    <<>> }

\* What the tabular source answers: the rows when the call succeeds.
AnswerOf(o, rs) == IF o = "ok" THEN RowsAnswer(rs) ELSE EmptyAnswer(o)

\* Any method, any configuration, any outcome of the tabular source, up to
\* MaxRows rows.
Init ==
  \E v \in Variants, m \in Methods, e \in Envs, o \in Outcomes,
     rs \in SeqsUpTo(SomeRows, MaxRows) :
    CatalogStart(v, m, e, AnswerOf(o, rs))

Spec == Init /\ [][CatalogNext]_vars

\* A GET arrived while the credentials or the spreadsheet identifier are
\* missing from the configuration.
ConfigMissing ==
  /\ pc # "off"
  /\ method = "GET"
  /\ env.creds = "missing" \/ env.spreadsheetId = "missing"

\* The message names what is missing from the configuration e.
NamesMissing(e, msg) ==
  /\ e.creds = "missing" => Includes(msg, "GOOGLE_SERVICE_ACCOUNT_JSON")
  /\ e.spreadsheetId = "missing" =>
       (Includes(msg, "SHEETS_SPREADSHEET_ID") \/ Includes(msg, "spreadsheetId"))

\* C11: when the credentials or the spreadsheet identifier are missing, the
\* handler finds that out before it parses the credentials and before it
\* calls the tabular source: the tabular source is never called, and the
\* request ends with a 500 whose error message names what is missing.
C11_ConfigCheckedBeforeUse ==
  ConfigMissing =>
    /\ sheetCalls = 0
    /\ pc \in {"start", "done"}
    /\ pc = "done" =>
         /\ Len(response) = 1
         /\ response[1].statusCode = 500
         /\ NamesMissing(env, response[1].body.error)

(***************************************************************************)
(* Image Resolver: one fetch, no retry.                                    *)
(***************************************************************************)

\* The handler has answered after a fetch that failed: the promise rejected
\* or the upstream status is outside 200-299.
FetchFailed ==
  /\ pxPc = "done"
  /\ fetches # <<>>
  /\ upstream.outcome = "rejects" \/ upstream.status \notin 200..299

\* The one answer of the handler is an error: a text body, not an image,
\* with a status outside 200-299.
ErrorResponse ==
  /\ Len(pxResponse) = 1
  /\ pxResponse[1].statusCode \notin 200..299
  /\ pxResponse[1].body.kind = "text"
  /\ "isBase64Encoded" \notin DOMAIN pxResponse[1]

\* C12 as stated: every execution of the Image Resolver issues exactly one
\* outbound fetch, never a second one, and a failed fetch (non-success
\* status or thrown error) is followed by an error response.
C12_ExactlyOneFetch ==
  /\ Len(fetches) <= 1
  /\ pxPc = "done" => Len(fetches) = 1
  /\ FetchFailed => ErrorResponse

\* C12, amended: an execution issues at most one outbound fetch and never
\* retries: exactly one when the request passes validation, none when it is
\* refused with a 400; a failed fetch (non-success status or thrown error)
\* is followed by an error response with no second fetch.
C12_AtMostOneFetchNoRetry ==
  /\ Len(fetches) <= 1
  /\ pxPc = "relay" => Len(fetches) = 1
  /\ pxPc = "done" =>
       /\ Len(pxResponse) = 1
       /\ Len(fetches) = (IF ParamMissing \/ SchemeRefused THEN 0 ELSE 1)
       /\ fetches = <<>> => pxResponse[1].statusCode = 400
  /\ FetchFailed => (ErrorResponse /\ Len(fetches) = 1)

\* The fetch of a valid request was rejected, and the handler has answered
\* 500 after that one fetch.
C12_Witness ==
  /\ pxPc = "done"
  /\ upstream.outcome = "rejects"
  /\ Len(fetches) = 1
  /\ pxResponse[1].statusCode = 500

(***************************************************************************)
(* Catalog Reader: one response per request.                               *)
(***************************************************************************)

\* The configuration is usable and the tabular source answers with
\* well-formed value ranges.
Succeeds ==
  /\ env.creds = "valid"
  /\ env.spreadsheetId = "present"
  /\ sheet.outcome = "ok"

\* The body of a 500: { error: message } and nothing else.
IsErrorBody(body) ==
  /\ body.kind = "json"
  /\ DOMAIN body = {"kind", "error"}
  /\ body.error # ""

\* C13: a Catalog Reader request ends with exactly one response, and until
\* then the handler is at a step that can be taken (nothing is thrown out
\* of it): a method other than GET gives 405 and
\* no call to the tabular source; a GET whose fetch and normalization
\* succeed gives 200 with a JSON body holding items, pinOptions and
\* manufacturerOptions; a GET that fails in between (bad credentials, fetch
\* error, malformed response) gives 500 with a body {error: message}.  The
\* tabular source is called at most once per request, and once for a 200.
C13_OneResponse ==
  pc # "off" =>
    /\ Len(response) = (IF pc = "done" THEN 1 ELSE 0)
    /\ pc \in {"start", "fetch", "rows", "done"}
    /\ pc = "rows" => idx \in 1..(Len(rows) + 1)
    /\ sheetCalls <= 1
    /\ method # "GET" => sheetCalls = 0
    /\ (pc = "done" /\ method # "GET") => response[1].statusCode = 405
    /\ (pc = "done" /\ method = "GET" /\ Succeeds) =>
         /\ response[1].statusCode = 200
         /\ response[1].body.kind = "json"
         /\ {"items", "pinOptions", "manufacturerOptions"} \subseteq DOMAIN response[1].body
         /\ sheetCalls = 1
    /\ (pc = "done" /\ method = "GET" /\ ~Succeeds) =>
         /\ response[1].statusCode = 500
         /\ IsErrorBody(response[1].body)

\* A GET with good configuration got a malformed answer from the tabular
\* source, and the handler has answered 500 after its one call.
C13_Witness ==
  /\ pc = "done"
  /\ method = "GET"
  /\ sheet.outcome = "malformed"
  /\ sheetCalls = 1
  /\ response[1].statusCode = 500

(***************************************************************************)
(* Resolving a resolved picture again.                                     *)
(***************************************************************************)

\* References stored with blanks inside the quotes.
PaddedCells ==
  { "' " \o ref \o " '" :
      ref \in { "https://cdn.example.com/img/x.png",
                "https://drive.google.com/file/d/AAA/view",
                "1DkJngqekuCgrFz0wF13MlOVP", "n/a" } }

StoredCells == PictureCells \cup PaddedCells

StoredRows == { RowWith((COL.partNumber :> "P") @@ (COL.picture :> c)) : c \in StoredCells }

InitStoredPictures ==
  \/ \E v \in Variants : AnyRequest(v)
  \/ \E v \in Resolving, r \in StoredRows : GoodRequest(v, <<r>>)

SpecStoredPictures == InitStoredPictures /\ [][CatalogNext]_vars

\* The resolver of the variant v applied to the value s.
Resolve(v, s) == IF v = "thumb" THEN buildDriveThumbnailUrl(s) ELSE normalizeDriveUrl(s)

\* C14: resolving an already resolved picture gives the same value: for
\* every stored reference (quoted or not, with or without blanks around it,
\* URL or bare identifier) the picture of the item, fed back through the
\* resolver that produced it, does not change.
C14_ResolutionIdempotent ==
  variant \in Resolving =>
    \A i \in 1..Len(items) : Resolve(variant, items[i].picture) = items[i].picture

====
